---------------------------- MODULE Spec2Model ----------------------------
(***************************************************************************)
(* Model of src/app.py: the material-in-transit dashboard service.         *)
(*                                                                         *)
(* The process loads one spreadsheet into the global DataFrame df at       *)
(* startup (load_data) and then serves four read operations over it:       *)
(* get_filters (/api/filters), get_data (/api/data), export_data           *)
(* (/api/export) and status (/api/status).                                 *)
(*                                                                         *)
(* Strings are sequences of one-character strings, so that strip(),        *)
(* comparison, sorting and pattern search are computed as Python computes  *)
(* them.  A cell of the DataFrame is either a Python str or the missing    *)
(* value NaN (object columns, which is what the filtered columns are).     *)
(***************************************************************************)
EXTENDS Integers, Sequences, FiniteSets, TLC

VARIABLES phase, excel_file, df, filtered_df, resp, calls

vars == <<phase, excel_file, df, filtered_df, resp, calls>>

(***************************************************************************)
(* Bounds of the model.                                                    *)
(***************************************************************************)
\* Largest number of data rows of a source spreadsheet.
MaxRows == 2

\* Largest number of requests the server works on at the same time.
MaxCalls == 2

(***************************************************************************)
(* Characters and strings.                                                 *)
(***************************************************************************)
\* The printable ASCII characters in code-point order, 32 (space) .. 126.
\* Code point 96 (grave accent) cannot be written in a TLA+ string: its slot
\* holds a name that equals no character, which keeps the positions right.
Ascii ==
   << " ", "!", "\"", "#", "$", "%", "&", "'", "(", ")", "*", "+", ",", "-", ".", "/",
      "0", "1", "2", "3", "4", "5", "6", "7", "8", "9", ":", ";", "<", "=", ">", "?",
      "@", "A", "B", "C", "D", "E", "F", "G", "H", "I", "J", "K", "L", "M", "N", "O",
      "P", "Q", "R", "S", "T", "U", "V", "W", "X", "Y", "Z", "[", "\\", "]", "^", "_",
      "grave", "a", "b", "c", "d", "e", "f", "g", "h", "i", "j", "k", "l", "m", "n", "o",
      "p", "q", "r", "s", "t", "u", "v", "w", "x", "y", "z", "{", "|", "}", "~" >>

\* The characters c with c.isspace(), each with its code point.  The ones a
\* TLA+ string cannot hold are written by their code-point names.
WhitespaceOrd ==
   ("\t" :> 9) @@ ("\n" :> 10) @@ ("U+000B" :> 11) @@ ("\f" :> 12) @@ ("\r" :> 13)
      @@ ("U+001C" :> 28) @@ ("U+001D" :> 29) @@ ("U+001E" :> 30) @@ ("U+001F" :> 31)
      @@ (" " :> 32) @@ ("U+0085" :> 133) @@ ("U+00A0" :> 160) @@ ("U+1680" :> 5760)
      @@ ("U+2000" :> 8192) @@ ("U+2001" :> 8193) @@ ("U+2002" :> 8194)
      @@ ("U+2003" :> 8195) @@ ("U+2004" :> 8196) @@ ("U+2005" :> 8197)
      @@ ("U+2006" :> 8198) @@ ("U+2007" :> 8199) @@ ("U+2008" :> 8200)
      @@ ("U+2009" :> 8201) @@ ("U+200A" :> 8202) @@ ("U+2028" :> 8232)
      @@ ("U+2029" :> 8233) @@ ("U+202F" :> 8239) @@ ("U+205F" :> 8287)
      @@ ("U+3000" :> 12288)

\* ord(c) of a printable ASCII character or a whitespace character.
Ord(c) ==
   IF c \in DOMAIN WhitespaceOrd THEN WhitespaceOrd[c]
   ELSE (CHOOSE i \in 1..Len(Ascii) : Ascii[i] = c) + 31

\* chr(n) for a printable ASCII code point.
Chr(n) == Ascii[n - 31]

\* The lower-case letter of each of "A".."Z".
LowerOfUpper ==
   [c \in {Chr(n) : n \in Ord("A")..Ord("Z")} |-> Chr(Ord(c) + (Ord("a") - Ord("A")))]

\* str.lower() on one character: "A".."Z" map to "a".."z", others are kept.
Lower(c) == IF c \in DOMAIN LowerOfUpper THEN LowerOfUpper[c] ELSE c

\* The characters str.strip() removes: those with c.isspace().
Whitespace == DOMAIN WhitespaceOrd

RECURSIVE lstrip(_)
lstrip(s) ==
   IF s # <<>> /\ Head(s) \in Whitespace THEN lstrip(Tail(s)) ELSE s

RECURSIVE rstrip(_)
rstrip(s) ==
   IF s # <<>> /\ s[Len(s)] \in Whitespace
      THEN rstrip(SubSeq(s, 1, Len(s) - 1))
      ELSE s

\* str.strip()
strip(s) == rstrip(lstrip(s))

\* The order  a < b  of Python on str: lexicographic on code points.
RECURSIVE StrLess(_, _)
StrLess(a, b) ==
   IF b = <<>> THEN FALSE
   ELSE IF a = <<>> THEN TRUE
   ELSE IF Head(a) = Head(b) THEN StrLess(Tail(a), Tail(b))
   ELSE Ord(Head(a)) < Ord(Head(b))

(***************************************************************************)
(* String constants of the program.                                        *)
(***************************************************************************)
All == <<"A", "l", "l">>
LRGenerated == <<"L", "R", " ", "G", "e", "n", "e", "r", "a", "t", "e", "d">>
LRNotGenerated ==
   <<"L", "R", " ", "N", "o", "t", " ", "G", "e", "n", "e", "r", "a", "t", "e", "d">>
NanStr == <<"n", "a", "n">>

Days == <<" ", "D", "a", "y", "s">>
age_bucket_order ==
   << <<"<", "5">> \o Days,
      <<"5", "-", "1", "0">> \o Days,
      <<"1", "0", "-", "2", "0">> \o Days,
      <<"2", "0", "-", "3", "0">> \o Days,
      <<"3", "0", "-", "6", "0">> \o Days,
      <<">", "6", "0">> \o Days >>

\* lr_details of get_filters.
lr_details_list == <<LRGenerated, LRNotGenerated>>

(***************************************************************************)
(* Cells and DataFrames.                                                   *)
(***************************************************************************)
\* The missing value (float NaN) and a Python str as cell values.
NaN == [t |-> "nan", s |-> <<>>]
Str(s) == [t |-> "str", s |-> s]

\* pd.isna(x) on a cell.
isna(x) == x.t = "nan"

\* str(x), which is also what Series.astype(str) makes of each cell.
AsStr(x) == IF isna(x) THEN NanStr ELSE x.s

\* pd.DataFrame(): no columns, no rows.
EmptyDataFrame == [columns |-> <<>>, rows |-> <<>>]

\* DataFrame.empty: some axis has length 0.
IsEmpty(d) == Len(d.columns) = 0 \/ Len(d.rows) = 0

\* The column labels of d as a set (col in d.columns).
ColumnSet(d) == {d.columns[i] : i \in 1..Len(d.columns)}

\* d[col]: the column as a sequence of cells, one per row, in row order.
Column(d, col) == [i \in 1..Len(d.rows) |-> d.rows[i][col]]

\* Series.fillna('') on one cell.
fillna(x) == IF isna(x) THEN Str(<<>>) ELSE x

\* clean_dataframe: every column is filled with '' where it is missing.  (The
\* float branch maps NaN to None, which fillna then fills as well.)
clean_dataframe(d) ==
   [columns |-> d.columns,
    rows |-> [i \in 1..Len(d.rows) |->
                 [col \in ColumnSet(d) |-> fillna(d.rows[i][col])]]]

\* load_data: the value of the global df after startup.  src.kind is
\* "missing" (os.path.exists is false), "unreadable" (pd.read_excel raises)
\* or "sheet" (pd.read_excel returns the DataFrame src.frame).
load_data(src) ==
   IF src.kind = "missing" THEN EmptyDataFrame
   ELSE IF src.kind = "unreadable" THEN EmptyDataFrame
   ELSE clean_dataframe(src.frame)

(***************************************************************************)
(* Series.str.contains(pat, case=False, na=False): a regular-expression    *)
(* search (regex=True is the default) with re.IGNORECASE.  The model       *)
(* implements the pattern syntax made of literal characters, ".", "*" and  *)
(* "(" ; patterns with the other metacharacters of ReMeta are outside its  *)
(* domain and no request of the model carries one.                         *)
(***************************************************************************)
ReMeta == {".", "^", "$", "*", "+", "?", "{", "}", "[", "]", "\\", "|", "(", ")"}

\* str(e) of the re.error that re.compile(pat) raises, "" when it compiles.
\* prev is what precedes position i in the current (sub)pattern: "none",
\* "item" or "repeat"; open is the position of the innermost "(" seen, or 0.
RECURSIVE ReScan(_, _, _, _)
ReScan(pat, i, prev, open) ==
   IF i > Len(pat)
      THEN IF open > 0
              THEN "missing ), unterminated subpattern at position "
                      \o ToString(open - 1)
              ELSE ""
   ELSE IF pat[i] = "*"
      THEN IF prev = "none"
              THEN "nothing to repeat at position " \o ToString(i - 1)
           ELSE IF prev = "repeat"
              THEN "multiple repeat at position " \o ToString(i - 1)
           ELSE ReScan(pat, i + 1, "repeat", open)
   ELSE IF pat[i] = "("
      THEN ReScan(pat, i + 1, "none", i)
   ELSE ReScan(pat, i + 1, "item", open)

re_error(pat) == ReScan(pat, 1, "none", 0)

\* The items of a pattern that compiles: a character (or ".") and whether a
\* "*" follows it.
RECURSIVE ReTokens(_)
ReTokens(pat) ==
   IF pat = <<>> THEN <<>>
   ELSE IF Len(pat) >= 2 /\ pat[2] = "*"
      THEN <<[ch |-> pat[1], star |-> TRUE]>> \o ReTokens(SubSeq(pat, 3, Len(pat)))
   ELSE <<[ch |-> pat[1], star |-> FALSE]>> \o ReTokens(Tail(pat))

\* One item against one character, ignoring case; "." is any character but
\* a newline.
ReItemMatches(tok, c) ==
   IF tok.ch = "." THEN c # "\n" ELSE Lower(tok.ch) = Lower(c)

\* The items from k on match s at position i.
RECURSIVE ReMatchHere(_, _, _, _)
ReMatchHere(toks, k, s, i) ==
   IF k > Len(toks) THEN TRUE
   ELSE IF toks[k].star
      THEN \/ ReMatchHere(toks, k + 1, s, i)
           \/ /\ i <= Len(s)
              /\ ReItemMatches(toks[k], s[i])
              /\ ReMatchHere(toks, k, s, i + 1)
   ELSE /\ i <= Len(s)
        /\ ReItemMatches(toks[k], s[i])
        /\ ReMatchHere(toks, k + 1, s, i + 1)

\* re.compile(pat, re.IGNORECASE).search(s) is not None, for a pattern that
\* compiles.
re_search(pat, s) ==
   \E i \in 1..(Len(s) + 1) : ReMatchHere(ReTokens(pat), 1, s, i)

(***************************************************************************)
(* Request parameters.  A query parameter is absent (None) or a str.       *)
(***************************************************************************)
None == [some |-> FALSE, v |-> <<>>]
Some(s) == [some |-> TRUE, v |-> s]

\* Python truthiness of an optional str: not None and not ''.
Truthy(o) == o.some /\ o.v # <<>>

\* The selector guard without its  != "All"  test.
SelectorActiveWithoutAll(o) == Truthy(o) /\ strip(o.v) # <<>>

\* The guard of the division, age_bucket, transporter and lr_details filters:
\*   x and x != "All" and x.strip()
SelectorActive(o) == Truthy(o) /\ o.v # All /\ strip(o.v) # <<>>

\* The guard of the po_no filter:  po_no and po_no.strip()
PoNoActive(o) == Truthy(o) /\ strip(o.v) # <<>>

(***************************************************************************)
(* Boolean indexing.  A filtered frame is the sequence of the index labels *)
(* (row positions of df) it keeps; err is str(e) of the exception raised   *)
(* on the way, "" when none was.                                           *)
(***************************************************************************)
\* str(KeyError(col))
KeyErrorStr(col) == "'" \o col \o "'"

\* All rows, last row first.
CopyOfReversed(d) ==
   [err |-> "", idx |-> [i \in 1..Len(d.rows) |-> Len(d.rows) + 1 - i]]

\* df.copy(): all rows.
CopyOf(d) == [err |-> "", idx |-> [i \in 1..Len(d.rows) |-> i]]

\* The equality mask that also keeps the rows whose cell is blank.
WhereEqualsOrBlank(f, d, col, v) ==
   IF f.err # "" THEN f
   ELSE IF col \notin ColumnSet(d) THEN [err |-> KeyErrorStr(col), idx |-> <<>>]
   ELSE [err |-> "",
         idx |-> SelectSeq(f.idx, LAMBDA i : \/ AsStr(d.rows[i][col]) = v
                                             \/ AsStr(d.rows[i][col]) = <<>>)]

\* f[f[col].astype(str) == v]
WhereEquals(f, d, col, v) ==
   IF f.err # "" THEN f
   ELSE IF col \notin ColumnSet(d) THEN [err |-> KeyErrorStr(col), idx |-> <<>>]
   ELSE [err |-> "",
         idx |-> SelectSeq(f.idx, LAMBDA i : AsStr(d.rows[i][col]) = v)]

\* f[f[col].astype(str).str.contains(pat, case=False, na=False)]
WhereContains(f, d, col, pat) ==
   IF f.err # "" THEN f
   ELSE IF col \notin ColumnSet(d) THEN [err |-> KeyErrorStr(col), idx |-> <<>>]
   ELSE IF re_error(pat) # "" THEN [err |-> re_error(pat), idx |-> <<>>]
   ELSE [err |-> "",
         idx |-> SelectSeq(f.idx, LAMBDA i : re_search(pat, AsStr(d.rows[i][col])))]

\* f[f[col].astype(str).str.strip() != '']
WhereNotBlank(f, d, col) ==
   IF f.err # "" THEN f
   ELSE IF col \notin ColumnSet(d) THEN [err |-> KeyErrorStr(col), idx |-> <<>>]
   ELSE [err |-> "",
         idx |-> SelectSeq(f.idx, LAMBDA i : strip(AsStr(d.rows[i][col])) # <<>>)]

\* f[f[col].astype(str) == '']: the comparison without the strip.
WhereEmptyString(f, d, col) ==
   IF f.err # "" THEN f
   ELSE IF col \notin ColumnSet(d) THEN [err |-> KeyErrorStr(col), idx |-> <<>>]
   ELSE [err |-> "",
         idx |-> SelectSeq(f.idx, LAMBDA i : AsStr(d.rows[i][col]) = <<>>)]

\* f[f[col].astype(str).str.strip() == '']
WhereBlank(f, d, col) ==
   IF f.err # "" THEN f
   ELSE IF col \notin ColumnSet(d) THEN [err |-> KeyErrorStr(col), idx |-> <<>>]
   ELSE [err |-> "",
         idx |-> SelectSeq(f.idx, LAMBDA i : strip(AsStr(d.rows[i][col])) = <<>>)]

(***************************************************************************)
(* Responses.                                                              *)
(***************************************************************************)
NoBody == [none |-> TRUE]

\* A JSON or streaming response with status 200.
Ok(body) == [status |-> 200, detail |-> "", body |-> body]

\* raise HTTPException(status_code, detail)
HTTPException(code, detail) == [status |-> code, detail |-> detail, body |-> NoBody]

(***************************************************************************)
(* get_filters                                                             *)
(***************************************************************************)
\* Series.dropna().unique().tolist(): the present values, first occurrences
\* only, in order of appearance.
RECURSIVE unique(_)
unique(cells) ==
   IF cells = <<>> THEN <<>>
   ELSE LET init == unique(SubSeq(cells, 1, Len(cells) - 1))
            last == cells[Len(cells)]
        IN  IF \E i \in 1..Len(init) : init[i] = last THEN init
            ELSE Append(init, last)

dropna(cells) == SelectSeq(cells, LAMBDA x : ~isna(x))

\* [str(x) for x in d[col].dropna().unique().tolist() if str(x).strip()]
NonBlankValues(d, col) ==
   LET vals == unique(dropna(Column(d, col)))
       strs == [i \in 1..Len(vals) |-> AsStr(vals[i])]
   IN  SelectSeq(strs, LAMBDA x : strip(x) # <<>>)

\* The list left in its order of appearance.
unsorted(l) == l

\* sorted(list) of strs.
RECURSIVE sorted(_)
sorted(l) ==
   IF l = <<>> THEN <<>>
   ELSE LET rest == sorted(Tail(l))
            x == Head(l)
            before == SelectSeq(rest, LAMBDA y : StrLess(y, x))
            after == SelectSeq(rest, LAMBDA y : ~StrLess(y, x))
        IN  before \o <<x>> \o after

\* Membership in a list:  x in l
InList(x, l) == \E i \in 1..Len(l) : l[i] = x

\* The first of the columns get_filters reads, in reading order, that d
\* lacks; "" if it has them all.
FiltersMissingColumn(d) ==
   IF "Division" \notin ColumnSet(d) THEN "Division"
   ELSE IF "Age Bucket" \notin ColumnSet(d) THEN "Age Bucket"
   ELSE IF "Transporter Name" \notin ColumnSet(d) THEN "Transporter Name"
   ELSE ""

\* The age buckets sorted like the other two lists.
AgeBucketsSorted(age_buckets_raw) == sorted(age_buckets_raw)

\* Line 63: [ab for ab in age_bucket_order if ab in age_buckets_raw]
AgeBuckets(age_buckets_raw) ==
   SelectSeq(age_bucket_order, LAMBDA ab : InList(ab, age_buckets_raw))

get_filters(d) ==
   IF IsEmpty(d)
      THEN Ok([divisions |-> <<>>, age_buckets |-> <<>>, transporters |-> <<>>])
   ELSE IF FiltersMissingColumn(d) # ""
      THEN HTTPException(500, KeyErrorStr(FiltersMissingColumn(d)))
   ELSE LET divisions == sorted(NonBlankValues(d, "Division"))
            age_buckets_raw == NonBlankValues(d, "Age Bucket")
            transporters ==
               sorted(SelectSeq(NonBlankValues(d, "Transporter Name"),
                                LAMBDA x : x # NanStr))
            age_buckets == AgeBuckets(age_buckets_raw)
        IN  Ok([divisions |-> divisions,
                age_buckets |-> age_buckets,
                transporters |-> <<<<>>>> \o transporters,
                lr_details |-> lr_details_list])

(***************************************************************************)
(* get_data                                                                *)
(***************************************************************************)
\* get_data's filters with the transporter filter left out.
get_data_filter_no_transporter(d, c) ==
   LET f0 == CopyOf(d)
       f1 == IF SelectorActive(c.division)
                THEN WhereEquals(f0, d, "Division", c.division.v) ELSE f0
       f2 == IF SelectorActive(c.age_bucket)
                THEN WhereEquals(f1, d, "Age Bucket", c.age_bucket.v) ELSE f1
       f4 == IF PoNoActive(c.po_no)
                THEN WhereContains(f2, d, "Po No", strip(c.po_no.v)) ELSE f2
       f5 == IF SelectorActive(c.lr_details)
                THEN IF c.lr_details.v = LRGenerated
                        THEN WhereNotBlank(f4, d, "LR No.")
                     ELSE IF c.lr_details.v = LRNotGenerated
                        THEN WhereBlank(f4, d, "LR No.")
                     ELSE f4
                ELSE f4
   IN  f5

\* Lines 83-103: filtered_df after the five filters of get_data.
get_data_filter(d, c) ==
   LET f0 == CopyOf(d)
       f1 == IF SelectorActive(c.division)
                THEN WhereEquals(f0, d, "Division", c.division.v) ELSE f0
       f2 == IF SelectorActive(c.age_bucket)
                THEN WhereEquals(f1, d, "Age Bucket", c.age_bucket.v) ELSE f1
       f3 == IF SelectorActive(c.transporter)
                THEN WhereEquals(f2, d, "Transporter Name", c.transporter.v) ELSE f2
       f4 == IF PoNoActive(c.po_no)
                THEN WhereContains(f3, d, "Po No", strip(c.po_no.v)) ELSE f3
       f5 == IF SelectorActive(c.lr_details)
                THEN IF c.lr_details.v = LRGenerated
                        THEN WhereNotBlank(f4, d, "LR No.")
                     ELSE IF c.lr_details.v = LRNotGenerated
                        THEN WhereBlank(f4, d, "LR No.")
                     ELSE f4
                ELSE f4
   IN  f5

\* Lines 107-112: a record of to_dict('records') with missing values as ''.
ProjectRecord(row) ==
   [col \in DOMAIN row |-> IF isna(row[col]) THEN Str(<<>>) ELSE row[col]]

\* get_data after its df.empty test, on the value d that df.copy() reads.
get_data_body(d, c) ==
   LET f == get_data_filter(d, c)
   IN  IF f.err # ""
          THEN [resp |-> HTTPException(500, f.err), filtered |-> <<>>]
          ELSE [resp |-> Ok([total_records |-> Len(f.idx),
                             data |-> [k \in 1..Len(f.idx) |->
                                          ProjectRecord(d.rows[f.idx[k]])]]),
                filtered |-> f.idx]

\* get_data without the early return for an empty df.
get_data_unguarded(d, c) == get_data_body(d, c)

\* The handler: its response and the index of its filtered_df.
get_data(d, c) ==
   IF IsEmpty(d)
      THEN [resp |-> Ok([total_records |-> 0, data |-> <<>>]), filtered |-> <<>>]
   ELSE get_data_body(d, c)

(***************************************************************************)
(* export_data                                                             *)
(***************************************************************************)
\* Lines 128-148: filtered_df after the five filters of export_data.
export_data_filter(d, c) ==
   LET f0 == CopyOf(d)
       f1 == IF SelectorActive(c.division)
                THEN WhereEquals(f0, d, "Division", c.division.v) ELSE f0
       f2 == IF SelectorActive(c.age_bucket)
                THEN WhereEquals(f1, d, "Age Bucket", c.age_bucket.v) ELSE f1
       f3 == IF SelectorActive(c.transporter)
                THEN WhereEquals(f2, d, "Transporter Name", c.transporter.v) ELSE f2
       f4 == IF PoNoActive(c.po_no)
                THEN WhereContains(f3, d, "Po No", strip(c.po_no.v)) ELSE f3
       f5 == IF SelectorActive(c.lr_details)
                THEN IF c.lr_details.v = LRGenerated
                        THEN WhereNotBlank(f4, d, "LR No.")
                     ELSE IF c.lr_details.v = LRNotGenerated
                        THEN WhereBlank(f4, d, "LR No.")
                     ELSE f4
                ELSE f4
   IN  f5

\* Lines 150-166: one row of export_df, its cells in column order with
\* missing values as ''.  (clean_float acts on float columns only.)
ExportRow(d, i) == [j \in 1..Len(d.columns) |-> fillna(d.rows[i][d.columns[j]])]

\* to_excel without index=False: the frame's index becomes the first column.
WorkbookWithIndex(d, idx) ==
   [sheet_name |-> "Material In Transit",
    header |-> <<"">> \o d.columns,
    rows |-> [k \in 1..Len(idx) |->
                 <<Str(<<Chr(48 + idx[k] - 1)>>)>> \o ExportRow(d, idx[k])]]

\* Lines 168-170: the workbook written by to_excel(index=False): one sheet,
\* the header row, one row per row of export_df.
Workbook(d, idx) ==
   [sheet_name |-> "Material In Transit",
    header |-> d.columns,
    rows |-> [k \in 1..Len(idx) |-> ExportRow(d, idx[k])]]

\* str(e) of HTTPException(status_code, detail), as starlette renders it
\* ("<status_code>: <detail>").  Only the text after "Export failed: "
\* depends on it; the status of the response does not.
HTTPExceptionStr(code, detail) == ToString(code) \o ": " \o detail

\* Lines 125-126: the exception export_data raises for an empty frame.
\* It is raised inside the try block, so the handler's own
\* "except Exception" clause (lines 179-183) catches it like any other.
ExportEmptyRaise == HTTPExceptionStr(400, "No data available to export")

\* Lines 179-183: what the except clause makes of an exception with str(e) = msg.
ExportExcept(msg) == HTTPException(500, "Export failed: " \o msg)

\* export_data after its df.empty test, on the value d that df.copy() reads.
export_data_body(d, c) ==
   LET f == export_data_filter(d, c)
   IN  IF f.err # ""
          THEN [resp |-> ExportExcept(f.err), filtered |-> <<>>]
          ELSE [resp |-> Ok([media_type |->
                                "application/vnd.openxmlformats-officedocument.spreadsheetml.sheet",
                             content_disposition |->
                                "attachment; filename=Material_Intransit_Export.xlsx",
                             workbook |-> Workbook(d, f.idx)]),
                filtered |-> f.idx]

export_data(d, c) ==
   IF IsEmpty(d)
      THEN [resp |-> ExportExcept(ExportEmptyRaise), filtered |-> <<>>]
   ELSE export_data_body(d, c)

\* export_data filtering the global in place instead of a copy.
DfFilteredInPlace(d, c) ==
   IF IsEmpty(d) \/ export_data_filter(d, c).err # "" THEN d
   ELSE [columns |-> d.columns,
         rows |-> [k \in 1..Len(export_data_filter(d, c).idx) |->
                      d.rows[export_data_filter(d, c).idx[k]]]]

\* df after export_data has run: the handler filters and normalizes copies
\* (df.copy(), filtered_df.copy()), so the global is what it was.
DfAfterExport(d, c) == d

\* get_data filtering the global df itself instead of a copy.
DfFilteredByGetData(d, c) ==
   IF IsEmpty(d) \/ get_data_filter(d, c).err # "" THEN d
   ELSE [columns |-> d.columns,
         rows |-> [k \in 1..Len(get_data_filter(d, c).idx) |->
                      d.rows[get_data_filter(d, c).idx[k]]]]

\* df after get_data has run: the handler works on df.copy() and on the
\* dicts of to_dict('records').
DfAfterGetData(d, c) == d

(***************************************************************************)
(* status                                                                  *)
(***************************************************************************)
status(d) ==
   Ok([status |-> "running",
       data_loaded |-> ~IsEmpty(d),
       total_records |-> IF ~IsEmpty(d) THEN Len(d.rows) ELSE 0])

(***************************************************************************)
(* The inputs the model draws from: source spreadsheets and requests.      *)
(***************************************************************************)
\* The columns the handlers read, in the order of the sheet.
Columns == <<"Division", "Po No", "Transporter Name", "LR No.", "Age Bucket">>

Row(division, po_no, transporter, lr_no, age_bucket) ==
   ("Division" :> division) @@ ("Po No" :> po_no)
      @@ ("Transporter Name" :> transporter) @@ ("LR No." :> lr_no)
      @@ ("Age Bucket" :> age_bucket)

\* Rows as pd.read_excel returns them: empty cells are NaN, and every text is
\* one that read_excel keeps as a str (none of its missing-value texts such
\* as "nan", and no text of a number).
RowList ==
   << Row(Str(<<"A">>), Str(<<"P", "O", "-", "1", "0", "0">>), Str(<<"T", "1">>),
         Str(<<"L", "1", "2", "3">>), Str(age_bucket_order[1])),
     Row(Str(<<"A">>), Str(<<"p", "o", "-", "1", "0", "0", "x">>), NaN,
         NaN, Str(age_bucket_order[3])),
     Row(Str(<<"B">>), Str(<<"P", "1", "0", "0">>), Str(<<"U+00A0">>),
         Str(<<" ">>), Str(<<"O", "l", "d">>)),
     Row(NaN, Str(<<"A", "L", "L", ".", "7">>), Str(<<"S", "2">>),
         Str(<<"L", "4", "5", "6">>), NaN) >>

RowPool == {RowList[i] : i \in 1..Len(RowList)}

\* All sequences over S of length at most n.
RECURSIVE SeqsUpTo(_, _)
SeqsUpTo(S, n) ==
   IF n = 0 THEN {<<>>}
   ELSE LET shorter == SeqsUpTo(S, n - 1)
        IN  shorter \cup {Append(q, x) : q \in shorter, x \in S}

\* The sheets with all columns and at most MaxRows rows.
Sheets == {[columns |-> Columns, rows |-> rows] : rows \in SeqsUpTo(RowPool, MaxRows)}

\* Sheet sh as it is when column col was never put in the spreadsheet.
WithoutColumn(sh, col) ==
   [columns |-> SelectSeq(sh.columns, LAMBDA x : x # col),
    rows |-> [i \in 1..Len(sh.rows) |->
                 [x \in ColumnSet(sh) \ {col} |-> sh.rows[i][x]]]]

\* The sheets with data rows that lack one of the columns the handlers read.
MalformedSheets ==
   {WithoutColumn(sh, Columns[j]) :
       sh \in {x \in Sheets : Len(x.rows) > 0}, j \in 1..Len(Columns)}

\* A spreadsheet at EXCEL_FILE that lacks one column.
MalformedSources == {[kind |-> "sheet", frame |-> sh] : sh \in MalformedSheets}

\* The sheets that hold the first rows of RowList, at most MaxRows of them.
PrefixSheets ==
   {[columns |-> Columns, rows |-> SubSeq(RowList, 1, n)] :
       n \in {k \in 0..MaxRows : k <= Len(RowList)}}

\* What load_data finds at EXCEL_FILE in the runs with overlapping requests.
ConcurrentSources ==
   {[kind |-> "missing", frame |-> EmptyDataFrame]}
      \cup {[kind |-> "sheet", frame |-> sh] : sh \in PrefixSheets}

\* What load_data can find at EXCEL_FILE.
Sources ==
   {[kind |-> "missing", frame |-> EmptyDataFrame],
    [kind |-> "unreadable", frame |-> EmptyDataFrame]}
      \cup {[kind |-> "sheet", frame |-> sh] : sh \in Sheets}

DivisionArgs ==
   {None, Some(<<>>), Some(All), Some(<<" ", "\f">>), Some(<<"A">>), Some(<<"Z">>)}
AgeBucketArgs ==
   {None, Some(All), Some(age_bucket_order[1]), Some(<<"O", "l", "d">>)}
TransporterArgs == {None, Some(<<"T", "1">>), Some(NanStr)}
PoNoArgs ==
   {None, Some(<<>>), Some(All), Some(<<"p", "o", "-", "1">>),
    Some(<<" ", "P", "1", " ">>), Some(<<".">>), Some(<<"(">>)}
LrDetailsArgs ==
   {None, Some(All), Some(LRGenerated), Some(LRNotGenerated),
    Some(<<"l", "r", " ", "g", "e", "n", "e", "r", "a", "t", "e", "d">>)}

Criteria ==
   [division : DivisionArgs, age_bucket : AgeBucketArgs,
    transporter : TransporterArgs, po_no : PoNoArgs, lr_details : LrDetailsArgs]

NoCriteria ==
   [division |-> None, age_bucket |-> None, transporter |-> None,
    po_no |-> None, lr_details |-> None]

(***************************************************************************)
(* The state machine.                                                      *)
(*   phase        "startup" until load_data has run, then "serving"        *)
(*   df           the global DataFrame                                     *)
(*   filtered_df  the index of filtered_df of the last get_data or         *)
(*                export_data call that built one                          *)
(*   resp         the request being answered and its response; NoResponse  *)
(*                while no request is in progress                          *)
(* A handler runs from its first line to its return or raise in one step;  *)
(* the step after it hands the response to the client.                     *)
(***************************************************************************)
NoResponse ==
   [op |-> "none", crit |-> NoCriteria, status |-> 0, detail |-> "", body |-> NoBody]

Response(op, c, r) ==
   [op |-> op, crit |-> c, status |-> r.status, detail |-> r.detail, body |-> r.body]

\* A request slot of the server that holds no request.
Idle ==
   [pc |-> "idle", op |-> "none", crit |-> NoCriteria, reads |-> <<>>,
    joined |-> FALSE, resp |-> NoResponse]

NoCalls == [i \in 1..MaxCalls |-> Idle]

\* Process start with one of the sources S at EXCEL_FILE.  df is not bound
\* before load_data runs; no handler runs in that phase.
InitWith(S) ==
   /\ phase = "startup"
   /\ excel_file \in S
   /\ df = EmptyDataFrame
   /\ filtered_df = <<>>
   /\ resp = NoResponse
   /\ calls = NoCalls

Init == InitWith(Sources)

\* @app.on_event("startup")
LoadData ==
   /\ phase = "startup"
   /\ df' = load_data(excel_file)
   /\ phase' = "serving"
   /\ UNCHANGED <<excel_file, filtered_df, resp, calls>>

\* GET /api/filters
GetFilters ==
   /\ phase = "serving"
   /\ resp = NoResponse
   /\ resp' = Response("filters", NoCriteria, get_filters(df))
   /\ filtered_df' = <<>>
   /\ UNCHANGED <<phase, excel_file, df, calls>>

\* GET /api/data
GetData ==
   /\ phase = "serving"
   /\ resp = NoResponse
   /\ \E c \in Criteria :
         LET r == get_data(df, c)
         IN  /\ resp' = Response("data", c, r.resp)
             /\ filtered_df' = r.filtered
             /\ df' = DfAfterGetData(df, c)
   /\ UNCHANGED <<phase, excel_file, calls>>

\* GET /api/export
ExportData ==
   /\ phase = "serving"
   /\ resp = NoResponse
   /\ \E c \in Criteria :
         LET r == export_data(df, c)
         IN  /\ resp' = Response("export", c, r.resp)
             /\ filtered_df' = r.filtered
             /\ df' = DfAfterExport(df, c)
   /\ UNCHANGED <<phase, excel_file, calls>>

\* GET /api/status
Status ==
   /\ phase = "serving"
   /\ resp = NoResponse
   /\ resp' = Response("status", NoCriteria, status(df))
   /\ filtered_df' = <<>>
   /\ UNCHANGED <<phase, excel_file, df, calls>>

\* The handler has returned (or raised): the response goes to the client
\* and the locals of the call are dropped.
SendResponse ==
   /\ phase = "serving"
   /\ resp # NoResponse
   /\ resp' = NoResponse
   /\ filtered_df' = <<>>
   /\ UNCHANGED <<phase, excel_file, df, calls>>

Next == LoadData \/ GetFilters \/ GetData \/ ExportData \/ Status \/ SendResponse

Spec == Init /\ [][Next]_vars

(***************************************************************************)
(* Overlapping requests.  The handlers are plain functions (def, not       *)
(* async def), which FastAPI runs in worker threads: calls interleave at   *)
(* every read of the global df.                                            *)
(***************************************************************************)
\* The criteria of the overlapping requests.
ConcurrentCriteria ==
   {NoCriteria,
    [NoCriteria EXCEPT !.division = Some(<<"A">>),
                       !.lr_details = Some(LRNotGenerated)],
    [NoCriteria EXCEPT !.po_no = Some(<<"(">>)]}

Requests ==
   {[op |-> "filters", crit |-> NoCriteria], [op |-> "status", crit |-> NoCriteria]}
      \cup {[op |-> o, crit |-> c] : o \in {"data", "export"}, c \in ConcurrentCriteria}

\* get_filters on the values r that its four reads of df returned.
get_filters_reads(r) ==
   IF IsEmpty(r[1])
      THEN Ok([divisions |-> <<>>, age_buckets |-> <<>>, transporters |-> <<>>])
   ELSE IF "Division" \notin ColumnSet(r[2])
      THEN HTTPException(500, KeyErrorStr("Division"))
   ELSE IF "Age Bucket" \notin ColumnSet(r[3])
      THEN HTTPException(500, KeyErrorStr("Age Bucket"))
   ELSE IF "Transporter Name" \notin ColumnSet(r[4])
      THEN HTTPException(500, KeyErrorStr("Transporter Name"))
   ELSE Ok([divisions |-> sorted(NonBlankValues(r[2], "Division")),
            age_buckets |-> AgeBuckets(NonBlankValues(r[3], "Age Bucket")),
            transporters |->
               <<<<>>>> \o sorted(SelectSeq(NonBlankValues(r[4], "Transporter Name"),
                                            LAMBDA x : x # NanStr)),
            lr_details |-> lr_details_list])

\* status on the values r that its reads of df returned.
status_reads(r) ==
   Ok([status |-> "running",
       data_loaded |-> ~IsEmpty(r[1]),
       total_records |-> IF ~IsEmpty(r[2]) THEN Len(r[3].rows) ELSE 0])

\* get_data / export_data on the values r that their reads of df returned:
\* the df.empty test, then df.copy().
get_data_reads(r, c) ==
   IF IsEmpty(r[1]) THEN get_data(r[1], c).resp ELSE get_data_body(r[2], c).resp

export_data_reads(r, c) ==
   IF IsEmpty(r[1]) THEN export_data(r[1], c).resp ELSE export_data_body(r[2], c).resp

\* The next statement of the call reads the global df.
NeedsRead(call) ==
   LET n == Len(call.reads)
   IN  IF n = 0 THEN TRUE
       ELSE IF call.op \in {"data", "export"}
          THEN n = 1 /\ ~IsEmpty(call.reads[1])
       ELSE IF call.op = "filters"
          THEN /\ ~IsEmpty(call.reads[1])
               /\ \/ n = 1
                  \/ n = 2 /\ "Division" \in ColumnSet(call.reads[2])
                  \/ n = 3 /\ "Age Bucket" \in ColumnSet(call.reads[3])
       ELSE \/ n = 1
            \/ n = 2 /\ ~IsEmpty(call.reads[2])

\* What the call returns, or raises, from what it read.
ReturnOf(call) ==
   IF call.op = "filters" THEN get_filters_reads(call.reads)
   ELSE IF call.op = "status" THEN status_reads(call.reads)
   ELSE IF call.op = "data" THEN get_data_reads(call.reads, call.crit)
   ELSE export_data_reads(call.reads, call.crit)

\* A request arrives and a worker thread enters its handler.
Receive(i) ==
   /\ phase = "serving"
   /\ calls[i].pc = "idle"
   /\ \E q \in Requests :
         calls' = [calls EXCEPT ![i] =
                     [pc |-> "run", op |-> q.op, crit |-> q.crit, reads |-> <<>>,
                      joined |-> \E j \in DOMAIN calls : j # i /\ calls[j].pc = "run",
                      resp |-> NoResponse]]
   /\ UNCHANGED <<phase, excel_file, df, filtered_df, resp>>

\* The call evaluates its next expression over the global df.
ReadDf(i) ==
   /\ calls[i].pc = "run"
   /\ NeedsRead(calls[i])
   /\ calls' = [calls EXCEPT ![i].reads = Append(@, df)]
   /\ UNCHANGED <<phase, excel_file, df, filtered_df, resp>>

\* The call runs to its return (or raise) on what it read.
Return(i) ==
   /\ calls[i].pc = "run"
   /\ ~NeedsRead(calls[i])
   /\ calls' = [calls EXCEPT ![i].pc = "done",
                             ![i].reads = <<>>,
                             ![i].resp = Response(calls[i].op, calls[i].crit,
                                                  ReturnOf(calls[i]))]
   /\ df' = IF calls[i].op = "export" THEN DfAfterExport(df, calls[i].crit)
            ELSE IF calls[i].op = "data" THEN DfAfterGetData(df, calls[i].crit)
            ELSE df
   /\ UNCHANGED <<phase, excel_file, filtered_df, resp>>

\* The response goes to the client and the thread is free again.
Deliver(i) ==
   /\ calls[i].pc = "done"
   /\ calls' = [calls EXCEPT ![i] = Idle]
   /\ UNCHANGED <<phase, excel_file, df, filtered_df, resp>>

NextConcurrent ==
   \/ LoadData
   \/ \E i \in 1..MaxCalls : Receive(i) \/ ReadDf(i) \/ Return(i) \/ Deliver(i)

InitConcurrent == InitWith(ConcurrentSources)

SpecConcurrent == InitConcurrent /\ [][NextConcurrent]_vars

\* The service started on a spreadsheet that lacks a column.
InitMalformed == InitWith(MalformedSources)

SpecMalformed == InitMalformed /\ [][Next]_vars

(***************************************************************************)
(* Vocabulary of the properties.                                           *)
(***************************************************************************)
Range(q) == {q[i] : i \in 1..Len(q)}

StrictlyIncreasing(q) == \A i \in 1..(Len(q) - 1) : q[i] < q[i + 1]

StrictlyAscending(l) == \A i \in 1..(Len(l) - 1) : StrLess(l[i], l[i + 1])

\* s has a character that is not whitespace.
NonBlank(s) == \E i \in 1..Len(s) : s[i] \notin Whitespace

\* needle occurs in hay as a contiguous substring, letter case ignored.
ContainsIgnoringCase(hay, needle) ==
   \E i \in 0..(Len(hay) - Len(needle)) :
      \A k \in 1..Len(needle) : Lower(hay[i + k]) = Lower(needle[k])

\* The positions of the rows of d that pass Test, in table order.
RowsWhere(d, Test(_)) == SelectSeq([i \in 1..Len(d.rows) |-> i], Test)

\* The records a frame index stands for.
RecordsAt(d, idx) == [k \in 1..Len(idx) |-> d.rows[idx[k]]]

IsDataResponse == resp.op = "data"
IsExportResponse == resp.op = "export"
IsFiltersResponse == resp.op = "filters"

(***************************************************************************)
(* C1: the filter as a conjunction of row predicates.                      *)
(***************************************************************************)
\* A criterion as C1 reads it: inactive exactly when absent, empty or "All".
ClaimedActive(o) == o.some /\ o.v # <<>> /\ o.v # All

\* The LR-status constraint on a row for the selector value v.
LrStatusHolds(row, v) ==
   IF v = LRGenerated THEN NonBlank(AsStr(row["LR No."]))
   ELSE IF v = LRNotGenerated THEN ~NonBlank(AsStr(row["LR No."]))
   ELSE TRUE

ClaimedPasses(row, c) ==
   /\ ClaimedActive(c.division) => AsStr(row["Division"]) = c.division.v
   /\ ClaimedActive(c.age_bucket) => AsStr(row["Age Bucket"]) = c.age_bucket.v
   /\ ClaimedActive(c.transporter) => AsStr(row["Transporter Name"]) = c.transporter.v
   /\ ClaimedActive(c.po_no) => ContainsIgnoringCase(AsStr(row["Po No"]), c.po_no.v)
   /\ ClaimedActive(c.lr_details) => LrStatusHolds(row, c.lr_details.v)

\* C1 as stated: GetData returns a row if and only if the row satisfies every
\* active predicate (exact Division, Age Bucket and Transporter Name,
\* case-insensitive containment of po_no in Po No, the LR-status constraint),
\* a predicate being inactive exactly when its criterion is absent, empty or
\* "All".
C1_AsStated ==
   IsDataResponse =>
      filtered_df = RowsWhere(df, LAMBDA i : ClaimedPasses(df.rows[i], resp.crit))

\* What the handler's guards make of a criterion: the four selectors are
\* inactive when absent, empty, made of whitespace only, or "All"; po_no is
\* inactive when absent, empty or made of whitespace only.
AmendedSelectorActive(o) == o.some /\ o.v # All /\ NonBlank(o.v)
AmendedPoNoActive(o) == o.some /\ NonBlank(o.v)

HasMeta(pat) == \E i \in 1..Len(pat) : pat[i] \in ReMeta

\* The Po No predicate for the trimmed po_no: containment ignoring case
\* when po_no has no regular-expression metacharacter, a regular-expression
\* search ignoring case otherwise.
PoNoMatches(pat, s) ==
   IF HasMeta(pat) THEN re_search(pat, s) ELSE ContainsIgnoringCase(s, pat)

AmendedPasses(row, c) ==
   /\ AmendedSelectorActive(c.division) => AsStr(row["Division"]) = c.division.v
   /\ AmendedSelectorActive(c.age_bucket) => AsStr(row["Age Bucket"]) = c.age_bucket.v
   /\ AmendedSelectorActive(c.transporter)
         => AsStr(row["Transporter Name"]) = c.transporter.v
   /\ AmendedPoNoActive(c.po_no) => PoNoMatches(strip(c.po_no.v), AsStr(row["Po No"]))
   /\ AmendedSelectorActive(c.lr_details) => LrStatusHolds(row, c.lr_details.v)

\* The trimmed po_no is active and is not a valid regular expression.
PoNoInvalid(c) == AmendedPoNoActive(c.po_no) /\ re_error(strip(c.po_no.v)) # ""

\* C1 (amended): on a loaded table GetData returns a row if and only if the
\* row satisfies every active predicate, where a selector (division,
\* age_bucket, transporter, lr_details) is inactive when absent, empty,
\* whitespace-only or "All", po_no is inactive when absent, empty or
\* whitespace-only ("All" is an ordinary search text for it), the Po No
\* predicate matches the trimmed po_no ignoring case as a regular expression
\* (plain containment when it has no metacharacter), and an lr_details value
\* other than "LR Generated" / "LR Not Generated" imposes no constraint; when
\* the trimmed po_no is not a valid regular expression and the table is not
\* empty, the request fails with status 500 and returns no row.
C1_FilterConjunction ==
   IsDataResponse =>
      IF ~IsEmpty(df) /\ PoNoInvalid(resp.crit)
         THEN resp.status = 500 /\ filtered_df = <<>>
         ELSE /\ resp.status = 200
              /\ filtered_df =
                    RowsWhere(df, LAMBDA i : AmendedPasses(df.rows[i], resp.crit))
              /\ resp.body.total_records = Len(filtered_df)
              /\ resp.body.data = RecordsAt(df, filtered_df)

\* C1 witness: a request with active division, po_no and LR-status criteria
\* kept one of two rows.
C1_Witness ==
   /\ IsDataResponse /\ resp.status = 200
   /\ SelectorActive(resp.crit.division)
   /\ PoNoActive(resp.crit.po_no)
   /\ resp.crit.lr_details = Some(LRGenerated)
   /\ Len(df.rows) = 2
   /\ Len(filtered_df) = 1

(***************************************************************************)
(* C2: the table is read-only once loaded.                                 *)
(***************************************************************************)
\* C2: after load completes no request changes the process-wide table: every
\* step taken while serving (GetVocabulary, GetData, Export, GetStatus,
\* succeeding or failing) leaves df with the same rows, in the same order,
\* with the same cell values.
C2_TableImmutable == [][phase = "serving" => df' = df]_vars

\* C2 witness: an export that kept only part of a loaded table has run.
C2_Witness ==
   /\ IsExportResponse /\ resp.status = 200
   /\ Len(filtered_df) < Len(df.rows)

(***************************************************************************)
(* C3, C4: the outcomes of Export.                                         *)
(***************************************************************************)
\* C3 as stated: when the loaded table is empty, Export produces no
\* spreadsheet and the caller receives the rejection raised for that case,
\* HTTP status 400 with detail "No data available to export".
C3_AsStated ==
   (IsExportResponse /\ IsEmpty(df)) =>
      /\ resp.body = NoBody
      /\ resp.status = 400
      /\ resp.detail = "No data available to export"

\* C4 as stated: when the loaded table is not empty Export does not report
\* an error (the error outcome is reserved for an empty source table), and
\* when the criteria match no row it returns a spreadsheet whose header row
\* is the table's column names and which has no data row.
C4_AsStated ==
   (IsExportResponse /\ ~IsEmpty(df)) =>
      /\ resp.status = 200
      /\ filtered_df = <<>> =>
            /\ resp.body.workbook.header = df.columns
            /\ resp.body.workbook.rows = <<>>

(***************************************************************************)
(* C5 - C7: the vocabulary.                                                *)
(***************************************************************************)
\* C5 as stated: when the loaded table is empty GetVocabulary succeeds and
\* returns all four lists (divisions, age_buckets, transporters,
\* lr_statuses), each of them empty.
C5_AsStated ==
   (IsFiltersResponse /\ IsEmpty(df)) =>
      /\ resp.status = 200
      /\ DOMAIN resp.body = {"divisions", "age_buckets", "transporters", "lr_details"}
      /\ resp.body.divisions = <<>>
      /\ resp.body.age_buckets = <<>>
      /\ resp.body.transporters = <<>>
      /\ resp.body.lr_details = <<>>

\* The distinct non-blank values of a column, as strs.
NonBlankColumnValues(d, col) ==
   {AsStr(d.rows[i][col]) : i \in {j \in 1..Len(d.rows) :
                                     /\ ~isna(d.rows[j][col])
                                     /\ NonBlank(AsStr(d.rows[j][col]))}}

\* l lists exactly the members of S, each once, in ascending order.
ListsAscending(l, S) == StrictlyAscending(l) /\ Range(l) = S

\* C6 as stated: for every non-empty table the divisions list and the
\* transporters list each contain exactly the distinct non-blank values of
\* their column: no duplicates, no blank or empty-string entry, in ascending
\* lexicographic order.
C6_AsStated ==
   (IsFiltersResponse /\ ~IsEmpty(df)) =>
      /\ resp.status = 200
      /\ ListsAscending(resp.body.divisions, NonBlankColumnValues(df, "Division"))
      /\ ListsAscending(resp.body.transporters,
                        NonBlankColumnValues(df, "Transporter Name"))

\* C6 (amended): for every non-empty table the divisions list contains
\* exactly the distinct non-blank values of Division, without duplicates or
\* blank entries, in ascending lexicographic order; the transporters list is
\* one empty-string entry followed by exactly the distinct non-blank values
\* of Transporter Name, without duplicates, in ascending lexicographic order.
C6_VocabularyLists ==
   (IsFiltersResponse /\ ~IsEmpty(df)) =>
      /\ resp.status = 200
      /\ ListsAscending(resp.body.divisions, NonBlankColumnValues(df, "Division"))
      /\ resp.body.transporters # <<>>
      /\ Head(resp.body.transporters) = <<>>
      /\ ListsAscending(Tail(resp.body.transporters),
                        NonBlankColumnValues(df, "Transporter Name"))

\* C6 witness: two divisions that the table holds in descending order, and a
\* transporter, were listed.
C6_Witness ==
   /\ IsFiltersResponse /\ resp.status = 200
   /\ Len(df.rows) = 2
   /\ Len(resp.body.divisions) = 2
   /\ AsStr(df.rows[1]["Division"]) = resp.body.divisions[2]
   /\ Len(resp.body.transporters) = 2

\* The position of a bucket in the canonical list.
CanonicalPosition(ab) ==
   CHOOSE i \in 1..Len(age_bucket_order) : age_bucket_order[i] = ab

\* C7: for every non-empty table the age_buckets list is exactly the
\* subsequence of the canonical list made of the values that occur in some
\* row's Age Bucket: canonical order is kept, canonical values that do not
\* occur are absent, and values outside the canonical list are not returned.
C7_AgeBuckets ==
   (IsFiltersResponse /\ ~IsEmpty(df)) =>
      /\ resp.status = 200
      /\ LET l == resp.body.age_buckets
             present == {AsStr(df.rows[i]["Age Bucket"]) : i \in 1..Len(df.rows)}
         IN  /\ \A k \in 1..Len(l) : InList(l[k], age_bucket_order) /\ l[k] \in present
             /\ \A i \in 1..Len(age_bucket_order) :
                   age_bucket_order[i] \in present => InList(age_bucket_order[i], l)
             /\ \A k \in 1..(Len(l) - 1) :
                   CanonicalPosition(l[k]) < CanonicalPosition(l[k + 1])

\* C7 witness: two buckets were listed whose canonical order is the reverse
\* of both their lexicographic order and their order in the table.
C7_Witness ==
   /\ IsFiltersResponse /\ resp.status = 200
   /\ Len(resp.body.age_buckets) = 2
   /\ StrLess(resp.body.age_buckets[2], resp.body.age_buckets[1])
   /\ AsStr(df.rows[1]["Age Bucket"]) = resp.body.age_buckets[2]

(***************************************************************************)
(* C8 - C10: relations between results.                                    *)
(***************************************************************************)
\* The rows GetData returns on table d for criteria c (none when it fails).
Returned(d, c) == Range(get_data(d, c).filtered)

\* C8: for every table and every fixed choice of the other criteria, the
\* rows returned with lr_status = generated and those returned with
\* lr_status = not_generated are disjoint and their union is the rows
\* returned with lr_status = any; a row is in the generated part iff its
\* LR No., as a trimmed string, is non-empty.
C8_LrPartition ==
   (IsDataResponse /\ resp.crit.lr_details = Some(LRGenerated)) =>
      LET generated == Range(filtered_df)
          not_generated ==
             Returned(df, [resp.crit EXCEPT !.lr_details = Some(LRNotGenerated)])
          any == Returned(df, [resp.crit EXCEPT !.lr_details = None])
      IN  /\ generated \cap not_generated = {}
          /\ generated \cup not_generated = any
          /\ any = Returned(df, [resp.crit EXCEPT !.lr_details = Some(All)])
          /\ \A i \in any :
                i \in generated <=> strip(AsStr(df.rows[i]["LR No."])) # <<>>

\* C8 witness: with no other criterion, "LR Generated" returned one of two
\* rows and "LR Not Generated" returns the other.
C8_Witness ==
   /\ IsDataResponse /\ resp.status = 200
   /\ resp.crit = [NoCriteria EXCEPT !.lr_details = Some(LRGenerated)]
   /\ Len(df.rows) = 2
   /\ Len(filtered_df) = 1
   /\ Len(get_data(df, [NoCriteria EXCEPT !.lr_details = Some(LRNotGenerated)]).filtered) = 1

CriteriaFields == {"division", "age_bucket", "transporter", "po_no", "lr_details"}

\* The match-all values of a criterion as C9 lists them.
MatchAllValues == {None, Some(<<>>), Some(All)}

\* C9 as stated: replacing any one criterion by its match-all value (absent,
\* empty or "All") while keeping the others fixed yields a result set that
\* contains every row of the original result set.
C9_AsStated ==
   IsDataResponse =>
      \A f \in CriteriaFields : \A m \in MatchAllValues :
         Range(filtered_df) \subseteq Returned(df, [resp.crit EXCEPT ![f] = m])

\* C9 (amended): replacing any one criterion by its match-all value while
\* keeping the others fixed yields a result set that contains every row of
\* the original result set, where the match-all values are absent and empty
\* for every criterion and "All" for every criterion except po_no.
C9_Monotone ==
   IsDataResponse =>
      \A f \in CriteriaFields : \A m \in MatchAllValues :
         (f = "po_no" => m # Some(All)) =>
            Range(filtered_df) \subseteq Returned(df, [resp.crit EXCEPT ![f] = m])

\* C9 witness: an active division criterion returned one row, and dropping
\* it returns two.
C9_Witness ==
   /\ IsDataResponse /\ resp.status = 200
   /\ SelectorActive(resp.crit.division)
   /\ Len(filtered_df) = 1
   /\ Cardinality(Returned(df, [resp.crit EXCEPT !.division = None])) = 2

\* a is b with some elements left out.
RECURSIVE IsSubsequence(_, _)
IsSubsequence(a, b) ==
   IF a = <<>> THEN TRUE
   ELSE IF b = <<>> THEN FALSE
   ELSE IF Head(a) = Head(b) THEN IsSubsequence(Tail(a), Tail(b))
   ELSE IsSubsequence(a, Tail(b))

\* The rows of d as the sheet writes them: cells in column order.
SheetRows(d) ==
   [i \in 1..Len(d.rows) |-> [j \in 1..Len(d.columns) |-> d.rows[i][d.columns[j]]]]

\* C10: for every table and criteria the records returned by GetData, and
\* the data rows written by Export, are a subsequence of the table's rows:
\* no row is duplicated and returned rows keep the table's relative order.
C10_OrderPreserved ==
   /\ (IsDataResponse /\ resp.status = 200) =>
         /\ IsSubsequence(resp.body.data, df.rows)
         /\ StrictlyIncreasing(filtered_df)
   /\ (IsExportResponse /\ resp.status = 200) =>
         /\ IsSubsequence(resp.body.workbook.rows, SheetRows(df))
         /\ StrictlyIncreasing(filtered_df)

\* C10 witness: GetData returned two different rows.
C10_Witness ==
   /\ IsDataResponse /\ resp.status = 200
   /\ Len(resp.body.data) = 2
   /\ resp.body.data[1] # resp.body.data[2]

(***************************************************************************)
(* C11 - C13: po_no as a search text, errors, unknown values.              *)
(***************************************************************************)
\* The request carries no criterion but po_no.
OnlyPoNo(c) == c = [NoCriteria EXCEPT !.po_no = c.po_no]

\* C11 as stated: the Po No predicate is a literal, case-insensitive
\* substring test for every po_no string, punctuation such as ".", "*", "("
\* or "[" included: a row passes iff the case-folded string form of its
\* Po No contains the case-folded po_no as a contiguous substring.  (po_no
\* is taken trimmed, as both handlers take it.)
C11_AsStated ==
   ((IsDataResponse \/ IsExportResponse) /\ ~IsEmpty(df)
       /\ PoNoActive(resp.crit.po_no) /\ OnlyPoNo(resp.crit)) =>
      /\ resp.status = 200
      /\ filtered_df =
            RowsWhere(df, LAMBDA i :
               ContainsIgnoringCase(AsStr(df.rows[i]["Po No"]),
                                    strip(resp.crit.po_no.v)))

\* C12 as stated: filtering has no error outcome: on a loaded table with all
\* expected columns GetData returns a successful response (total_records
\* and data) for every combination of criteria strings.
C12_AsStated ==
   IsDataResponse =>
      /\ resp.status = 200
      /\ DOMAIN resp.body = {"total_records", "data"}

\* The selector criteria whose value is compared with a column, and the
\* column of each.
ColumnOfCriterion ==
   ("division" :> "Division") @@ ("age_bucket" :> "Age Bucket")
      @@ ("transporter" :> "Transporter Name")

\* The vocabulary get_filters offers for a criterion on table d.
VocabularyOf(d, f) ==
   IF f = "division" THEN get_filters(d).body.divisions
   ELSE IF f = "age_bucket" THEN get_filters(d).body.age_buckets
   ELSE IF f = "transporter" THEN get_filters(d).body.transporters
   ELSE get_filters(d).body.lr_details

\* C13 as stated: a criterion value that is non-empty, not "All" and not an
\* entry of the corresponding vocabulary is treated as matching nothing: for
\* each of division, age_bucket, transporter and lr_status, GetData with
\* such a value returns total_records = 0 and an empty record list, without
\* an error.
C13_AsStated ==
   (IsDataResponse /\ ~IsEmpty(df)) =>
      \A f \in (DOMAIN ColumnOfCriterion) \cup {"lr_details"} :
         (/\ resp.crit[f].some
          /\ resp.crit[f].v # <<>>
          /\ resp.crit[f].v # All
          /\ ~InList(resp.crit[f].v, VocabularyOf(df, f))) =>
            /\ resp.status = 200
            /\ resp.body.total_records = 0
            /\ resp.body.data = <<>>

\* The values of a column of d, as strs.
ColumnStrings(d, col) == {AsStr(d.rows[i][col]) : i \in 1..Len(d.rows)}

\* The outcome of a handler call: status, detail, body and kept rows.
Outcome(r) == <<r.resp.status, r.resp.detail, r.resp.body, r.filtered>>

\* C13 (amended): a division, age_bucket or transporter value that has a
\* non-whitespace character, is not "All" and equals no row's value of the
\* column matches nothing: GetData returns no row, as total_records = 0 and
\* an empty record list, or as the status-500 error of an invalid po_no
\* pattern when the request carries one on a non-empty table.  A value that
\* occurs in the column matches its rows whether or not the vocabulary
\* lists it.  An lr_status value other than "LR Generated" and
\* "LR Not Generated", and a whitespace-only value of any of the four, is
\* ignored: the response is the one of the same request without it.
C13_UnknownValues ==
   IsDataResponse =>
      /\ \A f \in DOMAIN ColumnOfCriterion :
            (/\ resp.crit[f].some
             /\ NonBlank(resp.crit[f].v)
             /\ resp.crit[f].v # All
             /\ resp.crit[f].v \notin ColumnStrings(df, ColumnOfCriterion[f])) =>
               /\ filtered_df = <<>>
               /\ IF ~IsEmpty(df) /\ PoNoInvalid(resp.crit)
                     THEN resp.status = 500
                     ELSE /\ resp.status = 200
                          /\ resp.body.total_records = 0
                          /\ resp.body.data = <<>>
      /\ \A f \in (DOMAIN ColumnOfCriterion) \cup {"lr_details"} :
            (/\ resp.crit[f].some
             /\ \/ ~NonBlank(resp.crit[f].v)
                \/ f = "lr_details" /\ resp.crit[f].v \notin Range(lr_details_list)) =>
               <<resp.status, resp.detail, resp.body, filtered_df>>
                  = Outcome(get_data(df, [resp.crit EXCEPT ![f] = None]))

\* C13 witness: on a table of two rows a division that no row has returned
\* nothing, and the request also carried an lr_status the program does not
\* know.
C13_Witness ==
   /\ IsDataResponse /\ resp.status = 200
   /\ Len(df.rows) = 2
   /\ resp.crit.division = Some(<<"Z">>)
   /\ resp.crit.lr_details.some
   /\ NonBlank(resp.crit.lr_details.v)
   /\ resp.crit.lr_details.v \notin {All, LRGenerated, LRNotGenerated}
   /\ resp.body.total_records = 0

(***************************************************************************)
(* C14: a missing or unreadable spreadsheet.                               *)
(***************************************************************************)
\* load_data found no file at EXCEL_FILE, or reading it raised.
LoadFailed == excel_file.kind \in {"missing", "unreadable"}

\* C14: if the source spreadsheet is missing, or reading it raises an
\* error, load ends with an empty table and the service stays up:
\* afterwards GetStatus reports data_loaded = false and total_records = 0,
\* and GetData with any criteria returns total_records = 0 with an empty
\* record list instead of an error.
C14_LoadFailure ==
   (phase = "serving" /\ LoadFailed) =>
      /\ IsEmpty(df)
      /\ resp.op = "status" =>
            /\ resp.status = 200
            /\ resp.body.data_loaded = FALSE
            /\ resp.body.total_records = 0
      /\ resp.op = "data" =>
            /\ resp.status = 200
            /\ resp.body = [total_records |-> 0, data |-> <<>>]

\* C14 witness: reading the spreadsheet raised, and a GetData whose
\* division, po_no and lr_status are all active (po_no not even a valid
\* pattern) was answered.
C14_Witness ==
   /\ excel_file.kind = "unreadable"
   /\ IsDataResponse /\ resp.status = 200
   /\ SelectorActive(resp.crit.division)
   /\ resp.crit.po_no = Some(<<"(">>)
   /\ resp.crit.lr_details = Some(LRGenerated)

(***************************************************************************)
(* C16: the exported sheet against the records of GetData.                 *)
(***************************************************************************)
\* C16: for every non-empty table and every criteria combination, the
\* spreadsheet produced by Export has a header row equal to the table's
\* column names in the table's column order, and its data rows correspond
\* one-to-one and in the same order to the records GetData returns for the
\* same criteria: the number of data rows equals GetData's total_records,
\* and an unfiltered export has as many rows as the table.  Export produces
\* a spreadsheet exactly when GetData succeeds.
C16_ExportMatchesData ==
   (IsExportResponse /\ ~IsEmpty(df)) =>
      LET g == get_data(df, resp.crit).resp
      IN  /\ resp.status = 200 <=> g.status = 200
          /\ resp.status = 200 =>
                LET wb == resp.body.workbook
                IN  /\ wb.header = df.columns
                    /\ Len(wb.rows) = g.body.total_records
                    /\ \A k \in 1..Len(wb.rows) :
                          /\ Len(wb.rows[k]) = Len(df.columns)
                          /\ \A j \in 1..Len(df.columns) :
                                wb.rows[k][j] = g.body.data[k][df.columns[j]]
                    /\ resp.crit = NoCriteria => Len(wb.rows) = Len(df.rows)

\* C16 witness: an export by division and po_no kept the second of two rows
\* and dropped the first.
C16_Witness ==
   /\ IsExportResponse /\ resp.status = 200
   /\ Len(df.rows) = 2
   /\ SelectorActive(resp.crit.division)
   /\ PoNoActive(resp.crit.po_no)
   /\ filtered_df = <<2>>
   /\ Len(resp.body.workbook.rows) = 1

(***************************************************************************)
(* C17: a table that lacks a column.                                       *)
(***************************************************************************)
\* Table d with every column of Columns, the ones it lacks filled with
\* blank cells.
WithBlankColumns(d) ==
   [columns |-> Columns,
    rows |-> [i \in 1..Len(d.rows) |->
                 [col \in Range(Columns) |->
                     IF col \in ColumnSet(d) THEN d.rows[i][col] ELSE Str(<<>>)]]]

\* C17 as stated: when the loaded table is non-empty but lacks one of the
\* columns the operations read (Division, Age Bucket, Transporter Name,
\* Po No, LR No.), GetData, Export and GetVocabulary behave as if that column
\* were present with every cell Blank (the same rows are kept, the same
\* vocabulary is offered), and none of them ends in an error response.
C17_AsStated ==
   (~IsEmpty(df) /\ ColumnSet(df) # Range(Columns)) =>
      /\ IsDataResponse =>
            /\ resp.status = 200
            /\ filtered_df = get_data(WithBlankColumns(df), resp.crit).filtered
      /\ IsExportResponse =>
            /\ resp.status = 200
            /\ filtered_df = export_data(WithBlankColumns(df), resp.crit).filtered
      /\ IsFiltersResponse =>
            /\ resp.status = 200
            /\ resp.body = get_filters(WithBlankColumns(df)).body

(***************************************************************************)
(* C15: overlapping requests.                                              *)
(***************************************************************************)
\* The response of request (op, c) when it runs alone on the loaded table.
Alone(op, c) ==
   LET d == load_data(excel_file)
   IN  Response(op, c,
                IF op = "filters" THEN get_filters(d)
                ELSE IF op = "status" THEN status(d)
                ELSE IF op = "data" THEN get_data(d, c).resp
                ELSE export_data(d, c).resp)

\* C15: for any interleaving of concurrently executing GetVocabulary,
\* GetData, Export and GetStatus requests issued after load, every request's
\* response equals the response the same request produces when it runs
\* alone on the loaded table; no request's outcome depends on which other
\* requests ran before it or overlap with it.
C15_Independent ==
   \A i \in DOMAIN calls :
      calls[i].pc = "done" => calls[i].resp = Alone(calls[i].op, calls[i].crit)

\* C15 witness: a filtered GetData that arrived while another call was in
\* progress has returned one of the table's two rows, and an Export stands
\* between its df.empty test and its df.copy().
C15_Witness ==
   \E i, j \in DOMAIN calls :
      /\ i # j
      /\ calls[i].pc = "done" /\ calls[i].joined
      /\ calls[i].op = "data" /\ calls[i].crit # NoCriteria
      /\ calls[i].resp.status = 200
      /\ calls[i].resp.body.total_records = 1
      /\ Len(df.rows) = 2
      /\ calls[j].pc = "run" /\ calls[j].op = "export"
      /\ Len(calls[j].reads) = 1

=============================================================================
